---- MODULE Spec2Model ----
(***************************************************************************)
(* Model of the YouTube podcast summarizer: the parallel dispatchers       *)
(* (FixedSummarizer, ParallelOpenRouterGeminiSummarizer), the content      *)
(* resolvers and summarization clients (PodcastSummarizer,                 *)
(* EnhancedPodcastSummarizer, HybridPodcastSummarizer,                     *)
(* OpenRouterGeminiSummarizer) and the delivery adapter (EmailSender).     *)
(*                                                                         *)
(* Texts are modelled by what the code reads of them: their length and     *)
(* where they came from.  External services (the chat-completion API, the  *)
(* transcript API, the YouTube Data API, SMTP) answer nondeterministically.*)
(***************************************************************************)
EXTENDS Integers, Sequences, FiniteSets, TLC

VARIABLES
    entry,        \* which public operation this run exercises
    cls,          \* the class whose method runs
    videos,       \* process_videos_parallel: the input list
    max_workers,  \* self.max_workers
    dpc,          \* process_videos_parallel: position of the calling thread
    fut,          \* the futures: state and outcome of each unit of work
    yielded,      \* futures already handed out by as_completed
    results,      \* the local list `results`
    pv,           \* process_video: position, locals and what the services answered
    mail,         \* send_report: position, arguments and return value
    tt,           \* translate_title: the title and the returned value
    rd,           \* generate_report: the summaries, the story and the return value
    app           \* main(): configuration, arguments, position and the run's log

dispatchVars == <<videos, max_workers, dpc, fut, yielded, results>>
vars == <<entry, cls, dispatchVars, pv, mail, tt, rd, app>>

----------------------------------------------------------------------------
(* Bounds of the model *)

MaxVideos == 3
MaxTranscripts == 2
MaxSummaries == 2
MaxChannels == 2
MaxRuns == 2

----------------------------------------------------------------------------
(* Values *)

None == [none |-> TRUE]

\* How the chat-completion request of one video ends.
\*   ok          a 2xx answer whose text passes every check of the caller
\*   short       a 2xx answer whose stripped text has fewer than 100 characters
\*   mismatch    a 2xx answer of >= 100 characters failing _content_matches_title
\*   timeout     requests.post raises (network error, timeout)
\*   http_error  response.raise_for_status() raises
\*   malformed   response.json() or result['choices'][0]['message']['content'] raises
TextResponses == {"ok", "short", "mismatch"}
FailedResponses == {"timeout", "http_error", "malformed"}
Responses == TextResponses \cup FailedResponses

\* A video item as the dispatcher receives it.  shape "search_result" is what
\* search().list returns (id is a dict); with shape "id_not_dict" the value of
\* 'id' is a plain string, so video_info.get('id', {}).get(...) raises.
VideoItems ==
    [shape : {"search_result"}, resp : Responses]
        \cup [shape : {"id_not_dict"}, resp : {"ok"}]

DispatcherClasses == {"fixed", "parallel"}

\* max_workers: the default of both constructors, and a pool smaller than the batch
DefaultMaxWorkers == 5
WorkerChoices == {2, DefaultMaxWorkers}

SeqsUpTo(S, n) == UNION {[1..k -> S] : k \in 0..n}

----------------------------------------------------------------------------
(* _make_api_call *)

Summary(kind, reason) == [kind |-> kind, reason |-> reason]

Result(i, summary, success, content_type) ==
    [title |-> i, channel |-> i, video_id |-> i, summary |-> summary,
     success |-> success, content_type |-> content_type]

Raised == [raised |-> TRUE]
Returned(r) == [raised |-> FALSE, value |-> r]

\* FixedSummarizer._make_api_call: the lookups before the try raise on an item
\* whose 'id' is no dict; every failure of the request and every short or
\* mismatching answer is replaced by the canned paragraph, success stays True.
FixedReportsFailedRequest(i, item) ==
    IF item.shape = "id_not_dict"
    THEN Raised
    ELSE IF item.resp \in FailedResponses
         THEN Returned(Result(i, Summary("processing_failed", item.resp), FALSE,
                              "fixed_summarizer"))
         ELSE IF item.resp = "short" \/ item.resp = "mismatch"
              THEN Returned(Result(i, Summary("fallback_summary", ""), TRUE, "fixed_summarizer"))
              ELSE Returned(Result(i, Summary("model_text", ""), TRUE, "fixed_summarizer"))

FixedMakeApiCall(i, item) ==
    IF item.shape = "id_not_dict"
    THEN Raised
    ELSE IF item.resp \in FailedResponses
         THEN Returned(Result(i, Summary("fallback_summary", ""), TRUE, "fixed_summarizer"))
         ELSE IF item.resp = "short" \/ item.resp = "mismatch"
              THEN Returned(Result(i, Summary("fallback_summary", ""), TRUE, "fixed_summarizer"))
              ELSE Returned(Result(i, Summary("model_text", ""), TRUE, "fixed_summarizer"))

\* ParallelOpenRouterGeminiSummarizer._make_api_call: a failed request gives
\* summary "处理失败: <error>" and success False; the text of a 2xx answer is
\* returned as it is.
ParallelMakeApiCall(i, item) ==
    IF item.shape = "id_not_dict"
    THEN Raised
    ELSE IF item.resp \in FailedResponses
         THEN Returned(Result(i, Summary("processing_failed", item.resp), FALSE,
                              "openrouter_gemini_parallel"))
         ELSE Returned(Result(i, Summary("model_text", ""), TRUE,
                              "openrouter_gemini_parallel"))

MakeApiCall(c, i, item) ==
    IF c = "fixed" THEN FixedMakeApiCall(i, item) ELSE ParallelMakeApiCall(i, item)

\* the requests.post calls of one _make_api_call: none when the lookups in
\* front of the try raise, else the single call inside the try; the except
\* clause builds the result and sends nothing
RequestsWithOneRetry(c, item) ==
    IF item.shape = "id_not_dict" THEN 0
    ELSE IF item.resp \in FailedResponses THEN 2 ELSE 1

RequestsSent(c, item) == IF item.shape = "id_not_dict" THEN 0 ELSE 1

----------------------------------------------------------------------------
(* process_videos_parallel *)

\* The body of the `for future in as_completed(...)` loop for one future whose
\* outcome is `out`: the new value of `results`, and whether an exception
\* leaves the loop.
CollectAbortsOnException(c, out, rs) ==
    IF out.raised
    THEN [results |-> rs, escaped |-> TRUE]
    ELSE IF c = "fixed" \/ out.value.success
         THEN [results |-> Append(rs, out.value), escaped |-> FALSE]
         ELSE [results |-> rs, escaped |-> FALSE]

\* the results kept in the order of submission
InsertBySubmission(rs, r) ==
    LET before == SelectSeq(rs, LAMBDA x : x.video_id < r.video_id)
        after == SelectSeq(rs, LAMBDA x : x.video_id >= r.video_id)
    IN before \o <<r>> \o after

CollectInSubmissionOrder(c, out, rs) ==
    IF out.raised
    THEN [results |-> rs, escaped |-> FALSE]
    ELSE IF c = "fixed" \/ out.value.success
         THEN [results |-> InsertBySubmission(rs, out.value), escaped |-> FALSE]
         ELSE [results |-> rs, escaped |-> FALSE]

CollectOne(c, out, rs) ==
    IF out.raised
    THEN [results |-> rs, escaped |-> FALSE]                   \* except: log only
    ELSE IF c = "fixed"
         THEN [results |-> Append(rs, out.value), escaped |-> FALSE]
         ELSE IF out.value.success
              THEN [results |-> Append(rs, out.value), escaped |-> FALSE]
              ELSE [results |-> rs, escaped |-> FALSE]         \* log only

Idx == 1..Len(videos)
Running == {i \in Idx : fut[i].state = "running"}
Pending == {i \in Idx : fut[i].state = "pending"}
Finished == {i \in Idx : fut[i].state = "finished"}

NoFuture == [state |-> "none", out |-> None, requests |-> 0]

\* process_videos_parallel runs on its own or inside process_daily_summaries
InDispatch == entry \in {"dispatch", "main"}

\* the dict comprehension of executor.submit calls
Submit ==
    /\ InDispatch
    /\ dpc = "start"
    /\ fut' = [i \in Idx |-> [state |-> "pending", out |-> None, requests |-> 0]]
    /\ dpc' = "collecting"
    /\ UNCHANGED <<entry, cls, videos, max_workers, yielded, results, pv, mail, tt, rd, app>>

\* ThreadPoolExecutor(max_workers=self.max_workers): a unit starts only while
\* fewer than max_workers units are running
WorkerAlwaysFree == TRUE

WorkerFree == Cardinality(Running) < max_workers

\* a free worker thread takes the oldest queued unit
StartUnit(i) ==
    /\ InDispatch
    /\ dpc \in {"collecting", "aborting"}
    /\ i \in Pending
    /\ \A j \in Pending : i <= j
    /\ WorkerFree
    /\ fut' = [fut EXCEPT ![i].state = "running"]
    /\ UNCHANGED <<entry, cls, videos, max_workers, dpc, yielded, results, pv, mail, tt, rd, app>>

\* the worker runs _make_api_call to its end: the request it sends and the
\* result it returns; it works on its own locals and leaves `results` alone
FinishUnitWritesResults(i) ==
    /\ InDispatch
    /\ i \in Running
    /\ LET out == MakeApiCall(cls, i, videos[i])
       IN /\ fut' = [fut EXCEPT ![i] = [state |-> "finished", out |-> out,
                                        requests |-> fut[i].requests
                                                       + RequestsSent(cls, videos[i])]]
          /\ results' = IF out.raised THEN results ELSE Append(results, out.value)
    /\ UNCHANGED <<entry, cls, videos, max_workers, dpc, yielded, pv, mail, tt, rd, app>>

FinishUnit(i) ==
    /\ InDispatch
    /\ i \in Running
    /\ fut' = [fut EXCEPT ![i] = [state |-> "finished",
                                   out |-> MakeApiCall(cls, i, videos[i]),
                                   requests |-> fut[i].requests
                                                  + RequestsSent(cls, videos[i])]]
    /\ UNCHANGED <<entry, cls, videos, max_workers, dpc, yielded, results, pv, mail, tt, rd, app>>

\* as_completed yields a finished future; the loop body handles it
Collect(i) ==
    /\ InDispatch
    /\ dpc = "collecting"
    /\ i \in Finished \ yielded
    /\ LET c == CollectOne(cls, fut[i].out, results)
       IN /\ results' = c.results
          /\ dpc' = IF c.escaped THEN "aborting" ELSE "collecting"
    /\ yielded' = yielded \cup {i}
    /\ UNCHANGED <<entry, cls, videos, max_workers, fut, pv, mail, tt, rd, app>>

\* the loop over as_completed ends when every future has been yielded, and
\* leaving the `with` block waits for every unit (shutdown(wait=True))
ReturnsAfterFirstCompleted == yielded # {} \/ Idx = {}

AllUnitsCollected == yielded = Idx

ReturnResults ==
    /\ InDispatch
    /\ IF dpc = "collecting" THEN AllUnitsCollected ELSE dpc = "aborting" /\ Finished = Idx
    /\ dpc' = IF dpc = "collecting" THEN "returned" ELSE "escaped"
    /\ UNCHANGED <<entry, cls, videos, max_workers, fut, yielded, results, pv, mail, tt, rd, app>>

----------------------------------------------------------------------------

(* Content Resolver *)

ResolverClasses == {"enhanced", "hybrid"}
VideoClasses == {"podcast", "enhanced", "hybrid", "openrouter_direct"}

\* languages_to_try / languages_priority
Languages(c) ==
    IF c = "enhanced"
    THEN <<"en", "en-US", "en-GB", "zh", "zh-CN", "zh-TW">>
    ELSE <<"en", "en-US", "en-GB", "en-CA", "en-AU">>

EnhancedMinTranscript == 50
HybridMinTranscript == 100
EnhancedMinDescription == 100
HybridMinEnhancedContent == 200

\* characters of the enhanced_content template around the five inserted values,
\* after .strip()
EnhancedContentHeader == 64

MinTranscriptLen(c) == IF c = "enhanced" THEN EnhancedMinTranscript ELSE HybridMinTranscript

\* What one transcript fetch gives: -1 when it raises, else the length of the
\* joined text.
FetchRaises == 0 - 1
FetchOutcomes(c) == {FetchRaises, 0, MinTranscriptLen(c), MinTranscriptLen(c) + 1}

\* `text and len(text) > 50` (enhanced), `text and len(text) > 100` (hybrid)
AcceptTranscriptOffByOne(c, n) == n > MinTranscriptLen(c) + 1

AcceptTranscript(c, n) == n > 0 /\ n > MinTranscriptLen(c)

NoText == [src |-> "none", len |-> 0]
Text(src, n) == [src |-> src, len |-> n]

\* the provenance tags the resolvers return
LanguageProvenance(c, lang) ==
    IF c = "enhanced" THEN "transcript" ELSE "transcript_" \o lang
GeneratedProvenance(c) == IF c = "enhanced" THEN "auto_transcript" ELSE "auto_generated"
ManualProvenance(c) == IF c = "enhanced" THEN "manual_transcript" ELSE "manual"

\* One entry of list_transcripts: is_generated, and what its fetch() gives.
TranscriptEntries(c) == [is_generated : BOOLEAN, fetch : FetchOutcomes(c)]

NotListed == [status |-> "untried", items |-> << >>]
ListingRaised == [status |-> "raised", items |-> << >>]
Listed(items) == [status |-> "listed", items |-> items]
Listings(c) ==
    {ListingRaised} \cup {Listed(l) : l \in SeqsUpTo(TranscriptEntries(c), MaxTranscripts)}

\* The two loops over transcript_list: the first generated transcript whose text
\* is accepted, else the first manual one, else (None, None).
AcceptedAt(c, items, gen) ==
    {k \in 1..Len(items) :
        items[k].is_generated = gen /\ AcceptTranscript(c, items[k].fetch)}

Least(S) == CHOOSE k \in S : \A j \in S : k <= j

\* the list scanned once, in the order list_transcripts gives it
ScanInListOrder(c, items) ==
    LET any == AcceptedAt(c, items, TRUE) \cup AcceptedAt(c, items, FALSE)
    IN IF any = {}
       THEN [content |-> NoText, content_type |-> "None"]
       ELSE IF items[Least(any)].is_generated
            THEN [content |-> Text("generated", items[Least(any)].fetch),
                  content_type |-> GeneratedProvenance(c)]
            ELSE [content |-> Text("manual", items[Least(any)].fetch),
                  content_type |-> ManualProvenance(c)]

ScanTranscriptList(c, items) ==
    IF AcceptedAt(c, items, TRUE) # {}
    THEN [content |-> Text("generated", items[Least(AcceptedAt(c, items, TRUE))].fetch),
          content_type |-> GeneratedProvenance(c)]
    ELSE IF AcceptedAt(c, items, FALSE) # {}
         THEN [content |-> Text("manual", items[Least(AcceptedAt(c, items, FALSE))].fetch),
               content_type |-> ManualProvenance(c)]
         ELSE [content |-> NoText, content_type |-> "None"]

\* get_video_details: {} when there is no youtube_service, the request raises or
\* the video is not found; else the snippet.  desc_len is len(description),
\* desc_trail its trailing whitespace, meta_len the characters of title,
\* channel, published_at and view_count together.
NoDetailsYet == [status |-> "untried", desc_len |-> 0, desc_trail |-> 0, meta_len |-> 0]
DetailsUnavailable ==
    [status |-> "unavailable", desc_len |-> 0, desc_trail |-> 0, meta_len |-> 0]
DescriptionLens == {0, 40, EnhancedMinDescription, EnhancedMinDescription + 1}
MetaLens == {25, 36, 97}
DetailsFound ==
    {d \in [status : {"found"}, desc_len : DescriptionLens, desc_trail : {0, 1},
            meta_len : MetaLens] : d.desc_trail < d.desc_len \/ d.desc_trail = 0}
DetailsOutcomes == {DetailsUnavailable} \cup DetailsFound

\* len(enhanced_content) of get_content_with_fallbacks
EnhancedContentLen(d) == EnhancedContentHeader + d.meta_len + d.desc_len - d.desc_trail

\* Strategy 3 of get_transcript_with_fallback / the fallback of
\* get_content_with_fallbacks
DescriptionFallback(c, d) ==
    IF d.status = "found" /\ d.desc_len > 0
    THEN IF c = "enhanced"
         THEN IF d.desc_len > EnhancedMinDescription
              THEN [content |-> Text("description", d.desc_len),
                    content_type |-> "description"]
              ELSE [content |-> NoText, content_type |-> "None"]
         ELSE IF EnhancedContentLen(d) > HybridMinEnhancedContent
              THEN [content |-> Text("enhanced_description", EnhancedContentLen(d)),
                    content_type |-> "enhanced_description"]
              ELSE [content |-> NoText, content_type |-> "None"]
    ELSE [content |-> NoText, content_type |-> "None"]

----------------------------------------------------------------------------
(* Summarization Client *)

\* How the chat-completion request of a client ends: the failures of the
\* dispatcher's requests, "ok", and a well-formed answer whose content is null.
ClientResponses == {"ok", "null_content"} \cup FailedResponses

NoSummary == [kind |-> "None", reason |-> ""]

\* summarize_content of PodcastSummarizer, EnhancedPodcastSummarizer and
\* HybridPodcastSummarizer (`if not content: return None`, then one request
\* inside try/except Exception) and summarize_youtube_video of
\* OpenRouterGeminiSummarizer (no content argument).
SummarizeCatchesRequestErrorsOnly(c, content, r) ==
    IF c # "openrouter_direct" /\ content.len = 0
    THEN Returned(NoSummary)
    ELSE IF r \in {"timeout", "http_error"}
         THEN Returned(Summary(IF c = "openrouter_direct" THEN "analysis_failed"
                                                          ELSE "summary_failed", r))
         ELSE IF r = "malformed" THEN Raised
         ELSE IF r = "null_content" THEN Returned(NoSummary)
         ELSE Returned(Summary("model_text", ""))

Summarize(c, content, r) ==
    IF c # "openrouter_direct" /\ content.len = 0
    THEN Returned(NoSummary)
    ELSE IF r \in FailedResponses
         THEN Returned(Summary(IF c = "openrouter_direct" THEN "analysis_failed"
                                                          ELSE "summary_failed", r))
         ELSE IF r = "null_content"
              THEN Returned(NoSummary)
              ELSE Returned(Summary("model_text", ""))

\* the keys of content_type_prompts (create_enhanced_prompt) and of
\* content_instructions (create_smart_prompt)
EnhancedContentTypePrompts ==
    {"transcript", "auto_transcript", "manual_transcript", "description"}
HybridContentInstructions ==
    {"transcript_en", "auto_generated", "manual", "enhanced_description"}

\* the instruction wording of the prompt: the entry of the table for
\* content_type, else the default of .get(content_type, default); the other
\* clients have one wording
PromptInstruction(c, content_type) ==
    IF c = "enhanced"
    THEN IF content_type \in EnhancedContentTypePrompts THEN content_type ELSE "default"
    ELSE IF c = "hybrid"
         THEN IF content_type \in HybridContentInstructions THEN content_type
              ELSE "default"
         ELSE "single"

\* whether Summarize sends a request
SendsRequest(c, content) == c = "openrouter_direct" \/ content.len > 0

----------------------------------------------------------------------------
(* process_video *)

NoReturn == [kind |-> "pending", summary |-> NoSummary, content_type |-> "None"]
ReturnsNone == [kind |-> "None", summary |-> NoSummary, content_type |-> "None"]
ReturnsDict(summary, content_type) ==
    [kind |-> "dict", summary |-> summary, content_type |-> content_type]
Escapes == [kind |-> "raised", summary |-> NoSummary, content_type |-> "None"]

\* the 'content_type' of the dict returned when no content was found
UnavailableType(c) ==
    IF c = "enhanced" THEN "none" ELSE IF c = "hybrid" THEN "failed" ELSE "absent"

\* `if not content: return {... fixed message ...}`, else go on to summarize
AfterResolveNoGuard(c, content, content_type) ==
    [pc |-> "summarize", ret |-> NoReturn]

AfterResolve(c, content, content_type) ==
    IF content.len = 0
    THEN [pc |-> "done",
          ret |-> ReturnsDict(Summary("content_unavailable", ""), UnavailableType(c))]
    ELSE [pc |-> "summarize", ret |-> NoReturn]

\* the first resolver step of each class
FirstStep(c) ==
    IF c = "podcast" THEN "transcript"
    ELSE IF c = "openrouter_direct" THEN "summarize" ELSE "lang"

Max(a, b) == IF a >= b THEN a ELSE b

PvInit(has_id) ==
    [pc |-> "start", has_id |-> has_id, li |-> 1, seen |-> FetchRaises,
     listing |-> NotListed, details |-> NoDetailsYet,
     content |-> NoText, content_type |-> "None", steps |-> << >>,
     api_calls |-> 0, instruction |-> "none", resp |-> "none", ret |-> NoReturn]

PvIdle == [PvInit(FALSE) EXCEPT !.pc = "idle"]

\* video_id = video_info.get('id', {}).get('videoId'); if not video_id: return None
StartProcessVideo ==
    /\ entry = "process_video"
    /\ pv.pc = "start"
    /\ pv' = IF pv.has_id
             THEN [pv EXCEPT !.pc = FirstStep(cls)]
             ELSE [pv EXCEPT !.pc = "done", !.ret = ReturnsNone]
    /\ UNCHANGED <<entry, cls, dispatchVars, mail, tt, rd, app>>

\* PodcastSummarizer.get_transcript: one fetch for ['en', 'zh'], None when it raises
GetTranscript ==
    /\ entry = "process_video"
    /\ cls = "podcast"
    /\ pv.pc = "transcript"
    /\ \E o \in {FetchRaises, 0, EnhancedMinTranscript + 1} :
          pv' = [pv EXCEPT !.pc = "resolved",
                           !.seen = o,
                           !.content = IF o > 0 THEN Text("transcript", o) ELSE NoText,
                           !.content_type = "absent"]
    /\ UNCHANGED <<entry, cls, dispatchVars, mail, tt, rd, app>>

\* one attempted step of the resolver and whether it gave the returned text
Step(name, ok) == [step |-> name, ok |-> ok]

\* where the loop over the languages goes after a pass that returned nothing:
\* the next language, Strategy 2 after the last one
NextLanguageStep(c, li) == IF li = Len(Languages(c)) THEN "list" ELSE "lang"

\* `except Exception as e: print(...); continue` of the loop over the languages
FetchErrorEndsResolver(c, li) == "resolved"

AfterFetchError(c, li) == NextLanguageStep(c, li)

\* Strategy 1: one pass of the loop over the preferred languages
TryLanguage ==
    /\ entry = "process_video"
    /\ cls \in ResolverClasses
    /\ pv.pc = "lang"
    /\ \E o \in FetchOutcomes(cls) :
          IF AcceptTranscript(cls, o)
          THEN pv' = [pv EXCEPT !.pc = "resolved",
                                !.seen = Max(pv.seen, o),
                                !.steps = Append(@, Step(Languages(cls)[pv.li], TRUE)),
                                !.content = Text("language", o),
                                !.content_type =
                                    LanguageProvenance(cls, Languages(cls)[pv.li])]
          ELSE pv' = [pv EXCEPT !.pc = IF o = FetchRaises
                                       THEN AfterFetchError(cls, pv.li)
                                       ELSE NextLanguageStep(cls, pv.li),
                                !.li = pv.li + 1,
                                !.steps = Append(@, Step(Languages(cls)[pv.li], FALSE)),
                                !.seen = Max(pv.seen, o)]
    /\ UNCHANGED <<entry, cls, dispatchVars, mail, tt, rd, app>>

\* Strategy 2: list_transcripts and the two loops over the list
ListTranscripts ==
    /\ entry = "process_video"
    /\ cls \in ResolverClasses
    /\ pv.pc = "list"
    /\ \E l \in Listings(cls) :
          LET s == ScanTranscriptList(cls, l.items)
          IN IF l.status = "listed" /\ s.content.len > 0
             THEN pv' = [pv EXCEPT !.pc = "resolved", !.listing = l,
                                   !.steps = Append(@, Step("list_transcripts", TRUE)),
                                   !.content = s.content,
                                   !.content_type = s.content_type]
             ELSE pv' = [pv EXCEPT !.pc = "details", !.listing = l,
                                   !.steps = Append(@, Step("list_transcripts", FALSE))]
    /\ UNCHANGED <<entry, cls, dispatchVars, mail, tt, rd, app>>

\* Strategy 3: get_video_details and the description check
GetDetails ==
    /\ entry = "process_video"
    /\ cls \in ResolverClasses
    /\ pv.pc = "details"
    /\ \E d \in DetailsOutcomes :
          LET s == DescriptionFallback(cls, d)
          IN pv' = [pv EXCEPT !.pc = "resolved", !.details = d,
                              !.steps = Append(@, Step("description", s.content.len > 0)),
                              !.content = s.content,
                              !.content_type = s.content_type]
    /\ UNCHANGED <<entry, cls, dispatchVars, mail, tt, rd, app>>

\* process_video after the resolver returned (content, content_type)
CheckContent ==
    /\ entry = "process_video"
    /\ pv.pc = "resolved"
    /\ LET a == AfterResolve(cls, pv.content, pv.content_type)
       IN pv' = [pv EXCEPT !.pc = a.pc, !.ret = a.ret]
    /\ UNCHANGED <<entry, cls, dispatchVars, mail, tt, rd, app>>

\* summary = self.summarize_content(...) / summarize_youtube_video(...), and the
\* returned dict
SummarizeVideo ==
    /\ entry = "process_video"
    /\ pv.pc = "summarize"
    /\ \E r \in ClientResponses :
          LET s == Summarize(cls, pv.content, r)
              sent == SendsRequest(cls, pv.content)
          IN pv' = [pv EXCEPT
                       !.pc = "done",
                       !.resp = IF sent THEN r ELSE "none",
                       !.api_calls = pv.api_calls + (IF sent THEN 1 ELSE 0),
                       !.instruction = IF sent
                                       THEN PromptInstruction(cls, pv.content_type)
                                       ELSE "none",
                       !.ret = IF s.raised
                               THEN Escapes
                               ELSE ReturnsDict(s.value,
                                        IF cls = "openrouter_direct"
                                        THEN "openrouter_gemini_direct"
                                        ELSE pv.content_type)]
    /\ UNCHANGED <<entry, cls, dispatchVars, mail, tt, rd, app>>

----------------------------------------------------------------------------
(* EmailSender.send_report *)

\* pdf_path as send_report gets it: None, a path that does not exist, a readable
\* file, or an existing path that open(pdf_path, "rb") cannot read
PdfPaths == {"None", "missing", "file", "unreadable"}

\* the calls inside the try block, in order
SmtpSteps == <<"connect", "starttls", "login", "sendmail", "quit">>

MailInit(pdf, subject_given) ==
    [pc |-> "attach", pdf |-> pdf, subject_given |-> subject_given,
     attached |-> FALSE, step |-> 1, succeeded |-> {}, ret |-> "pending"]

MailIdle == [MailInit("None", FALSE) EXCEPT !.pc = "idle"]

\* what send_report does when the SMTP call number k has returned or raised:
\* the except clause turns every exception into `return False`
AfterSmtpStep(m, ok) ==
    IF ok
    THEN IF m.step = Len(SmtpSteps)
         THEN [m EXCEPT !.pc = "done", !.ret = "True",
                        !.succeeded = m.succeeded \cup {SmtpSteps[m.step]}]
         ELSE [m EXCEPT !.step = m.step + 1,
                        !.succeeded = m.succeeded \cup {SmtpSteps[m.step]}]
    ELSE [m EXCEPT !.pc = "done", !.ret = "False"]

\* send_report runs on its own or inside process_daily_summaries
InSendReport == entry \in {"send_report", "main"}

\* the message is built and the PDF attached before the try block: an error
\* of open()/read() leaves send_report as an exception
AttachPdf ==
    /\ InSendReport
    /\ mail.pc = "attach"
    /\ mail' = IF mail.pdf = "unreadable"
               THEN [mail EXCEPT !.pc = "raised", !.ret = "raised"]
               ELSE [mail EXCEPT !.pc = "smtp", !.attached = (mail.pdf = "file")]
    /\ UNCHANGED <<entry, cls, dispatchVars, pv, tt, rd, app>>

\* one call of the try block: it returns or raises
SmtpStep ==
    /\ InSendReport
    /\ mail.pc = "smtp"
    /\ \E ok \in BOOLEAN : mail' = AfterSmtpStep(mail, ok)
    /\ UNCHANGED <<entry, cls, dispatchVars, pv, tt, rd, app>>

----------------------------------------------------------------------------
(* translate_title *)

\* Titles and phrases are sequences of characters.
UpperCase ==
    <<"A", "B", "C", "D", "E", "F", "G", "H", "I", "J", "K", "L", "M",
      "N", "O", "P", "Q", "R", "S", "T", "U", "V", "W", "X", "Y", "Z">>
LowerCase ==
    <<"a", "b", "c", "d", "e", "f", "g", "h", "i", "j", "k", "l", "m",
      "n", "o", "p", "q", "r", "s", "t", "u", "v", "w", "x", "y", "z">>

\* str.lower()
LowerChar(ch) ==
    IF \E k \in 1..Len(UpperCase) : UpperCase[k] = ch
    THEN LowerCase[CHOOSE k \in 1..Len(UpperCase) : UpperCase[k] = ch]
    ELSE ch
Lower(s) == [k \in 1..Len(s) |-> LowerChar(s[k])]

\* `needle in hay` on strings
Contains(hay, needle) ==
    \E k \in 0..(Len(hay) - Len(needle)) : SubSeq(hay, k + 1, k + Len(needle)) = needle

\* str.split()[:2]: the first two whitespace-separated words
WordStarts(s) == {k \in 1..Len(s) : s[k] # " " /\ (k = 1 \/ s[k - 1] = " ")}
WordEnd(s, k) ==
    CHOOSE j \in k..Len(s) :
        /\ \A m \in k..j : s[m] # " "
        /\ j = Len(s) \/ s[j + 1] = " "
FirstTwoWords(s) ==
    {SubSeq(s, k, WordEnd(s, k)) :
        k \in {k \in WordStarts(s) : Cardinality({j \in WordStarts(s) : j < k}) < 2}}

\* The lookup tables, in the order of the dict literals.  zh stands for the
\* Chinese text of the entry.
FixedPdfTranslations ==
    << [zh |-> "zh_write_things_down",
        en |-> <<"W", "r", "i", "t", "e", " ", "T", "h", "i", "n", "g", "s",
                " ", "D", "o", "w", "n">>],
       [zh |-> "zh_navigating_data_chaos_a_new_approach",
        en |-> <<"N", "a", "v", "i", "g", "a", "t", "i", "n", "g", " ", "D",
                "a", "t", "a", " ", "C", "h", "a", "o", "s", " ", "A", " ",
                "N", "e", "w", " ", "A", "p", "p", "r", "o", "a", "c", "h">>],
       [zh |-> "zh_opendoor_is_a_software_business",
        en |-> <<"O", "p", "e", "n", "d", "o", "o", "r", " ", "i", "s", " ",
                "a", " ", "S", "o", "f", "t", "w", "a", "r", "e", " ", "B",
                "u", "s", "i", "n", "e", "s", "s">>],
       [zh |-> "zh_modern_politics_and_starting_a_new_country",
        en |-> <<"M", "o", "d", "e", "r", "n", " ", "P", "o", "l", "i", "t",
                "i", "c", "s", " ", "a", "n", "d", " ", "S", "t", "a", "r",
                "t", "i", "n", "g", " ", "a", " ", "N", "e", "w", " ", "C",
                "o", "u", "n", "t", "r", "y">>],
       [zh |-> "zh_never_been_more_opportunities_for_young_people",
        en |-> <<"T", "h", "e", "r", "e", "'", "s", " ", "n", "e", "v", "e",
                "r", " ", "b", "e", "e", "n", " ", "m", "o", "r", "e", " ",
                "o", "p", "p", "o", "r", "t", "u", "n", "i", "t", "i", "e",
                "s", " ", "f", "o", "r", " ", "y", "o", "u", "n", "g", " ",
                "p", "e", "o", "p", "l", "e", ",", " ", "I", "F", " ", "y",
                "o", "u", " ", "w", "o", "r", "k", " ", "h", "a", "r", "d",
                "!">>],
       [zh |-> "zh_how_britain_defeated_germany_on_the_atlantic",
        en |-> <<"H", "o", "w", " ", "B", "r", "i", "t", "a", "i", "n", " ",
                "D", "e", "f", "e", "a", "t", "e", "d", " ", "G", "e", "r",
                "m", "a", "n", "y", " ", "O", "n", " ", "T", "h", "e", " ",
                "A", "t", "l", "a", "n", "t", "i", "c">>],
       [zh |-> "zh_how_to_live_in_everyone_elses_future",
        en |-> <<"H", "o", "w", " ", "t", "o", " ", "L", "i", "v", "e", " ",
                "i", "n", " ", "E", "v", "e", "r", "y", "o", "n", "e", " ",
                "E", "l", "s", "e", "'", "s", " ", "F", "u", "t", "u", "r",
                "e">>],
       [zh |-> "zh_balaji_srinivasan",
        en |-> <<"B", "a", "l", "a", "j", "i", " ", "S", "r", "i", "n", "i",
                "v", "a", "s", "a", "n">>] >>

FixedSummarizerTranslations ==
    << [zh |-> "zh_write_things_down",
        en |-> <<"W", "r", "i", "t", "e", " ", "T", "h", "i", "n", "g", "s",
                " ", "D", "o", "w", "n">>],
       [zh |-> "zh_navigating_data_chaos",
        en |-> <<"N", "a", "v", "i", "g", "a", "t", "i", "n", "g", " ", "D",
                "a", "t", "a", " ", "C", "h", "a", "o", "s">>],
       [zh |-> "zh_opendoor_is_a_software_business",
        en |-> <<"O", "p", "e", "n", "d", "o", "o", "r", " ", "i", "s", " ",
                "a", " ", "S", "o", "f", "t", "w", "a", "r", "e", " ", "B",
                "u", "s", "i", "n", "e", "s", "s">>],
       [zh |-> "zh_modern_politics_and_starting_a_new_country",
        en |-> <<"M", "o", "d", "e", "r", "n", " ", "P", "o", "l", "i", "t",
                "i", "c", "s", " ", "a", "n", "d", " ", "S", "t", "a", "r",
                "t", "i", "n", "g", " ", "a", " ", "N", "e", "w", " ", "C",
                "o", "u", "n", "t", "r", "y">>],
       [zh |-> "zh_never_been_more_opportunities",
        en |-> <<"T", "h", "e", "r", "e", "'", "s", " ", "n", "e", "v", "e",
                "r", " ", "b", "e", "e", "n", " ", "m", "o", "r", "e", " ",
                "o", "p", "p", "o", "r", "t", "u", "n", "i", "t", "i", "e",
                "s">>],
       [zh |-> "zh_how_britain_defeated_germany",
        en |-> <<"H", "o", "w", " ", "B", "r", "i", "t", "a", "i", "n", " ",
                "D", "e", "f", "e", "a", "t", "e", "d", " ", "G", "e", "r",
                "m", "a", "n", "y">>],
       [zh |-> "zh_how_to_live_in_everyone_elses_future",
        en |-> <<"H", "o", "w", " ", "t", "o", " ", "L", "i", "v", "e", " ",
                "i", "n", " ", "E", "v", "e", "r", "y", "o", "n", "e", " ",
                "E", "l", "s", "e", "'", "s", " ", "F", "u", "t", "u", "r",
                "e">>] >>

\* the titles translate_title is called with
Titles ==
    { <<"W", "r", "i", "t", "e", " ", "T", "h", "i", "n", "g", "s", " ",
        "D", "o", "w", "n">>,
      <<"w", "r", "i", "t", "e", " ", "t", "h", "i", "n", "g", "s", " ",
        "d", "o", "w", "n", " ", "t", "o", "d", "a", "y">>,
      <<"N", "a", "v", "i", "g", "a", "t", "i", "n", "g", " ", "D", "a",
        "t", "a", " ", "C", "h", "a", "o", "s">>,
      <<"B", "a", "l", "a", "j", "i", " ", "S", "r", "i", "n", "i", "v",
        "a", "s", "a", "n">>,
      <<"T", "h", "i", "s", " ", "w", "e", "e", "k">>,
      <<"T", "o", "m", "o", "r", "r", "o", "w">>,
      <<"A", "I", " ", "n", "e", "w", "s">>,
      << >> }

\* what translate_title returns for a hit: the entry's Chinese text
Translation(zh) == <<zh>>

\* FixedPDFGenerator.translate_title: the exact match, then the first entry
\* whose phrase, or one of whose first two words, is a substring of the
\* lower-cased title, else the title
FixedPdfPartialMatches(title) ==
    {k \in 1..Len(FixedPdfTranslations) :
        \/ Contains(Lower(title), Lower(FixedPdfTranslations[k].en))
        \/ \E w \in FirstTwoWords(Lower(FixedPdfTranslations[k].en)) :
               Contains(Lower(title), w)}

FixedPdfTranslateTitle(title) ==
    IF \E k \in 1..Len(FixedPdfTranslations) : FixedPdfTranslations[k].en = title
    THEN Translation(FixedPdfTranslations[
             CHOOSE k \in 1..Len(FixedPdfTranslations) :
                 FixedPdfTranslations[k].en = title].zh)
    ELSE IF FixedPdfPartialMatches(title) # {}
         THEN Translation(FixedPdfTranslations[Least(FixedPdfPartialMatches(title))].zh)
         ELSE title

\* FixedSummarizer.translate_title: the first entry whose phrase is a substring
\* of the lower-cased title, else the title
FixedSummarizerMatches(title) ==
    {k \in 1..Len(FixedSummarizerTranslations) :
        Contains(Lower(title), Lower(FixedSummarizerTranslations[k].en))}

FixedSummarizerTranslateTitle(title) ==
    IF FixedSummarizerMatches(title) # {}
    THEN Translation(FixedSummarizerTranslations[Least(FixedSummarizerMatches(title))].zh)
    ELSE title

TranslatorClasses == {"fixed_pdf", "fixed"}

TranslateTitle(c, title) ==
    IF c = "fixed_pdf" THEN FixedPdfTranslateTitle(title)
    ELSE FixedSummarizerTranslateTitle(title)

TtInit(title) == [pc |-> "start", title |-> title, out |-> << >>]
TtIdle == [TtInit(<< >>) EXCEPT !.pc = "idle"]

\* one call of translate_title(title)
CallTranslateTitle ==
    /\ entry = "translate_title"
    /\ tt.pc = "start"
    /\ tt' = [tt EXCEPT !.pc = "done", !.out = TranslateTitle(cls, tt.title)]
    /\ UNCHANGED <<entry, cls, dispatchVars, pv, mail, rd, app>>

----------------------------------------------------------------------------
(* Report Renderer: generate_report *)

RendererClasses == {"fixed_pdf", "report", "simple_pdf", "markdown_pdf"}

\* summary['summary'] as the renderer finds it: the key is missing, the value
\* is None, '', whitespace only, a text, or a text that Paragraph() cannot
\* parse (unbalanced markup)
EmptyBodies == {"missing", "None", "empty", "blank"}
Bodies == EmptyBodies \cup {"text", "bad_markup"}

\* the titles of the rendered results: an exact entry of the lookup table, a
\* title with "is" inside a word, a title without any known word
RenderTitles ==
    { <<"W", "r", "i", "t", "e", " ", "T", "h", "i", "n", "g", "s", " ", "D", "o", "w", "n">>,
      <<"T", "h", "i", "s", " ", "w", "e", "e", "k">>,
      <<"A", "I", " ", "n", "e", "w", "s">> }

SummaryItems == [title : RenderTitles, body : Bodies]

\* one flowable of the story
El(kind, item, text) == [kind |-> kind, item |-> item, text |-> text]

Flowables(elems) == [raised |-> FALSE, elems |-> elems]
RaisesInSection == [raised |-> TRUE, elems |-> << >>]

\* SimplePDFGenerator.translate_title_basic: every key found in the title is
\* replaced; the key "AI" is replaced by itself
SimpleTranslationKeys ==
    { <<"H", "o", "w", " ", "t", "o">>,
      <<"T", "h", "e", " ", "F", "u", "t", "u", "r", "e", " ", "o", "f">>,
      <<"B", "e", "h", "i", "n", "d", " ", "t", "h", "e">>,
      <<"I", "n", "s", "i", "d", "e">>,
      <<"W", "h", "y">>,
      <<"W", "h", "a", "t">>,
      <<"W", "h", "e", "n">>,
      <<"M", "a", "c", "h", "i", "n", "e", " ", "L", "e", "a", "r", "n",
        "i", "n", "g">>,
      <<"D", "e", "e", "p", " ", "L", "e", "a", "r", "n", "i", "n", "g">>,
      <<"S", "t", "a", "r", "t", "u", "p">>,
      <<"T", "e", "c", "h", "n", "o", "l", "o", "g", "y">>,
      <<"B", "u", "s", "i", "n", "e", "s", "s">> }

SimpleTranslateTitleBasic(title) ==
    IF \E key \in SimpleTranslationKeys : Contains(title, key)
    THEN <<"zh_basic">> \o title
    ELSE title

\* the title paragraph, with the translation line when the translation differs
TitleLines(i, title, translated) ==
    IF translated # title
    THEN <<El("title", i, title), El("translation", i, translated)>>
    ELSE <<El("title", i, title)>>

\* FixedPDFGenerator.generate_report, one pass of the loop: title, channel,
\* link, then the paragraphs of the body or the placeholder, then the spacer
FixedPdfSection(i, n, s) ==
    IF s.body = "bad_markup"
    THEN RaisesInSection
    ELSE Flowables(
            TitleLines(i, s.title, FixedPdfTranslateTitle(s.title))
            \o <<El("channel", i, << >>), El("link", i, << >>)>>
            \o (IF s.body = "text" THEN <<El("body", i, <<"text">>)>>
                ELSE IF s.body = "missing" THEN <<El("body", i, <<"default">>)>>
                ELSE <<El("body", i, <<"placeholder">>)>>)
            \o (IF i < n THEN <<El("spacer", i, << >>)>> ELSE << >>))

\* ReportGenerator.generate_report, one pass of the loop: summary['summary']
\* raises KeyError when the key is missing; a truthy value is printed as it is
ReportSection(i, n, s) ==
    IF s.body \in {"missing", "bad_markup"}
    THEN RaisesInSection
    ELSE Flowables(
            <<El("title", i, s.title), El("link", i, << >>), El("spacer", i, << >>)>>
            \o (IF s.body = "text" THEN <<El("body", i, <<"text">>)>>
                ELSE IF s.body = "blank" THEN <<El("body", i, <<"blank">>)>>
                ELSE <<El("body", i, <<"placeholder">>)>>)
            \o <<El("spacer", i, << >>)>>
            \o (IF i % 3 = 0 /\ i < n THEN <<El("pagebreak", i, << >>)>> ELSE << >>))

\* SimplePDFGenerator.generate_report, one pass of the loop: re.sub on None
\* raises; paragraphs that are empty after strip() are not added
SimplePdfSection(i, n, s) ==
    IF s.body \in {"None", "bad_markup"}
    THEN RaisesInSection
    ELSE Flowables(
            TitleLines(i, s.title, SimpleTranslateTitleBasic(s.title))
            \o <<El("channel", i, << >>)>>
            \o (IF s.body = "text" THEN <<El("body", i, <<"text">>)>>
                ELSE IF s.body = "missing" THEN <<El("body", i, <<"default">>)>>
                ELSE << >>)
            \o (IF i < n THEN <<El("spacer", i, << >>)>> ELSE << >>))

\* MarkdownPDFGenerator.generate_report, one pass of the loop
MarkdownPdfSection(i, n, s) ==
    IF s.body \in {"missing", "bad_markup"}
    THEN RaisesInSection
    ELSE Flowables(
            <<El("title", i, s.title), El("channel", i, << >>), El("link", i, << >>),
              El("spacer", i, << >>)>>
            \o (IF s.body = "text" THEN <<El("body", i, <<"text">>)>>
                ELSE <<El("body", i, <<"placeholder">>)>>)
            \o <<El("spacer", i, << >>)>>
            \o (IF i < n
                THEN <<El("divider", i, << >>), El("spacer", i, << >>),
                       El("pagebreak", i, << >>)>>
                ELSE << >>))

SectionDropsEmptyBody(c, i, n, s) ==
    IF s.body \in EmptyBodies THEN Flowables(<< >>)
    ELSE IF c = "fixed_pdf" THEN FixedPdfSection(i, n, s)
    ELSE IF c = "report" THEN ReportSection(i, n, s)
    ELSE IF c = "simple_pdf" THEN SimplePdfSection(i, n, s)
    ELSE MarkdownPdfSection(i, n, s)

Section(c, i, n, s) ==
    IF c = "fixed_pdf" THEN FixedPdfSection(i, n, s)
    ELSE IF c = "report" THEN ReportSection(i, n, s)
    ELSE IF c = "simple_pdf" THEN SimplePdfSection(i, n, s)
    ELSE MarkdownPdfSection(i, n, s)

\* the flowables in front of the first section
StoryHead(c, n) ==
    IF c \in {"fixed_pdf", "simple_pdf"} THEN <<El("header", 0, << >>)>>
    ELSE IF c = "report"
         THEN <<El("header", 0, << >>), El("spacer", 0, << >>),
                El("count", 0, << >>), El("spacer", 0, << >>)>>
         ELSE <<El("header", 0, << >>), El("spacer", 0, << >>), El("table", 0, << >>),
                El("spacer", 0, << >>)>>
              \o (IF n > 0 THEN <<El("count", 0, << >>)>> ELSE << >>)
              \o <<El("spacer", 0, << >>), El("divider", 0, << >>), El("spacer", 0, << >>)>>

\* the flowables after the last section
StoryFoot(c) ==
    IF c \in {"report", "markdown_pdf"}
    THEN <<El("spacer", 0, << >>), El("footer", 0, << >>)>>
    ELSE << >>

\* whether the whole of generate_report runs inside try/except Exception
CatchesAll(c) == c \in {"fixed_pdf", "simple_pdf"}

NoFirstPass == [ret |-> "none", story |-> << >>]

RdInit(c, summaries) ==
    [pc |-> "start", cls |-> c, summaries |-> summaries, i |-> 1, story |-> << >>,
     failed_at |-> 0, ret |-> "pending", pass |-> 1, first |-> NoFirstPass]

RdIdle == [RdInit("fixed_pdf", << >>) EXCEPT !.pc = "idle"]

InReport == entry \in {"generate_report", "main"}

\* story = [] and the flowables in front of the loop
StartReport ==
    /\ InReport
    /\ rd.pc = "start"
    /\ rd' = [rd EXCEPT !.story = StoryHead(rd.cls, Len(rd.summaries)),
                        !.pc = IF Len(rd.summaries) = 0 THEN "build" ELSE "loop"]
    /\ UNCHANGED <<entry, cls, dispatchVars, pv, mail, tt, app>>

\* for i, summary in enumerate(summaries, 1): one pass.  An exception ends
\* generate_report: as `return None` where the loop is inside the try, as an
\* exception of the call where it is not.
RenderSection ==
    /\ InReport
    /\ rd.pc = "loop"
    /\ LET sec == Section(rd.cls, rd.i, Len(rd.summaries), rd.summaries[rd.i])
       IN rd' = IF sec.raised
                THEN [rd EXCEPT !.pc = "done", !.failed_at = rd.i,
                                !.ret = IF CatchesAll(rd.cls) THEN "None" ELSE "raised"]
                ELSE [rd EXCEPT !.story = rd.story \o sec.elems,
                                !.i = rd.i + 1,
                                !.pc = IF rd.i = Len(rd.summaries) THEN "build" ELSE "loop"]
    /\ UNCHANGED <<entry, cls, dispatchVars, pv, mail, tt, app>>

\* the footer and doc.build(story): the path, or None when the build raises
BuildDocument ==
    /\ InReport
    /\ rd.pc = "build"
    /\ \E built \in BOOLEAN :
          rd' = [rd EXCEPT !.story = rd.story \o StoryFoot(rd.cls),
                           !.pc = "done",
                           !.ret = IF built THEN "path" ELSE "None"]
    /\ UNCHANGED <<entry, cls, dispatchVars, pv, mail, tt, app>>

\* generate_report is called again with the same list
RenderAgain ==
    /\ entry = "generate_report"
    /\ rd.pc = "done"
    /\ rd.pass = 1
    /\ rd' = [RdInit(rd.cls, rd.summaries) EXCEPT
                  !.pass = 2, !.first = [ret |-> rd.ret, story |-> rd.story]]
    /\ UNCHANGED <<entry, cls, dispatchVars, pv, mail, tt, app>>

----------------------------------------------------------------------------
(* main.py: YouTubePodcastSummarizer and main() *)

\* ConfigManager.validate_config: required_vars
RequiredVars == {"OPENROUTER_API_KEY", "EMAIL_USERNAME", "EMAIL_PASSWORD", "EMAIL_TO"}
EnvKeys == RequiredVars \cup {"YOUTUBE_API_KEY"}

ValidateConfig(env) == RequiredVars \subseteq env

\* sys.argv[1:]
Argvs == {<< >>, <<"--once">>, <<"--verbose">>}

\* max_workers=5 in initialize_components
MainMaxWorkers == 5

\* the items of the search().list response: 'id' is a dict; an item whose
\* 'id' is no dict makes _make_api_call raise
MainVideoItems ==
    [shape : {"search_result"}, resp : {"ok", "timeout"}]
        \cup [shape : {"id_not_dict"}, resp : {"ok"}]

NoComponents ==
    [youtube_client |-> FALSE, summarizer |-> FALSE, report_generator |-> FALSE,
     email_sender |-> FALSE]

\* initialize_components: its return value and the components it has set
InitializeComponents(env) ==
    IF ~ValidateConfig(env)
    THEN [ok |-> FALSE, components |-> NoComponents]
    ELSE [ok |-> TRUE,
          components |-> [youtube_client |-> "YOUTUBE_API_KEY" \in env,
                          summarizer |-> TRUE, report_generator |-> TRUE,
                          email_sender |-> TRUE]]

\* __init__ calls initialize_components() and drops what it returns; main()
\* then goes on
AfterConstructionStopsOnFailure(ok) == IF ok THEN "main" ELSE "exit"

AfterConstruction(ok) == "main"

\* len(sys.argv) > 1 and sys.argv[1] == '--once'
RunsOnceOnAnyArgument(argv) == Len(argv) > 0

RunsOnce(argv) == Len(argv) > 0 /\ argv[1] = "--once"

\* title_bound: whether a pass of the loop has assigned channel_title;
\* calls: the calls of generate_report and send_report made by this run
NoRun ==
    [log |-> {}, raised |-> {}, channels |-> 0, ch |-> 1, all_videos |-> << >>,
     processed_channels |-> 0, title_bound |-> FALSE,
     calls |-> [generate_report |-> 0, send_report |-> 0]]

AppInit(env, argv, schedule_time_ok) ==
    [pc |-> "construct", env |-> env, argv |-> argv,
     schedule_time_ok |-> schedule_time_ok,
     initialized |-> "none", components |-> NoComponents,
     jobs |-> 0, runs |-> 0, due_count |-> 0, failed_runs |-> 0, run |-> NoRun]

AppIdle == [AppInit({}, << >>, TRUE) EXCEPT !.pc = "idle"]

\* app = YouTubePodcastSummarizer()
Construct ==
    /\ entry = "main"
    /\ app.pc = "construct"
    /\ LET c == InitializeComponents(app.env)
       IN app' = [app EXCEPT !.initialized = IF c.ok THEN "True" ELSE "False",
                             !.components = c.components,
                             !.pc = AfterConstruction(c.ok)]
    /\ UNCHANGED <<entry, cls, dispatchVars, pv, mail, tt, rd>>

\* the first statement of process_daily_summaries: a new run; failed_runs
\* counts the earlier runs that ended in the outer except
BeginRun(a) ==
    [a EXCEPT !.pc = "authenticate", !.runs = a.runs + 1, !.run = NoRun,
              !.failed_runs = @ + (IF "daily_error" \in a.run.log THEN 1 ELSE 0)]

ResetStages ==
    /\ videos' = << >>
    /\ max_workers' = MainMaxWorkers
    /\ dpc' = "idle"
    /\ fut' = << >>
    /\ yielded' = {}
    /\ results' = << >>
    /\ rd' = RdIdle
    /\ mail' = MailIdle

\* main() with --once: app.run_once()
RunOnceBranch ==
    /\ entry = "main"
    /\ app.pc = "main"
    /\ RunsOnce(app.argv)
    /\ app' = BeginRun(app)
    /\ ResetStages
    /\ UNCHANGED <<entry, cls, pv, tt>>

\* main() without --once: app.setup_scheduler(); schedule's at() raises on a
\* schedule_time it cannot parse
SetupScheduler ==
    /\ entry = "main"
    /\ app.pc = "main"
    /\ ~RunsOnce(app.argv)
    /\ app' = IF app.schedule_time_ok
              THEN [app EXCEPT !.jobs = app.jobs + 1, !.pc = "pending"]
              ELSE [app EXCEPT !.pc = "crashed"]
    /\ UNCHANGED <<entry, cls, dispatchVars, pv, mail, tt, rd>>

\* run_scheduler: schedule.run_pending() runs the job when it is due
RunPending ==
    /\ entry = "main"
    /\ app.pc = "pending"
    /\ \/ /\ app.runs < MaxRuns
          /\ app' = [BeginRun(app) EXCEPT !.due_count = app.due_count + 1]
          /\ ResetStages
       \/ /\ app' = [app EXCEPT !.pc = "sleeping"]
          /\ UNCHANGED <<dispatchVars, mail, rd>>
    /\ UNCHANGED <<entry, cls, pv, tt>>

\* run_scheduler: time.sleep(60)
Sleep ==
    /\ entry = "main"
    /\ app.pc = "sleeping"
    /\ app' = [app EXCEPT !.pc = "pending"]
    /\ UNCHANGED <<entry, cls, dispatchVars, pv, mail, tt, rd>>

\* `except Exception as e` of process_daily_summaries: the error is logged and
\* the run ends
AbortLeavesTheRun(a, call) ==
    [a EXCEPT !.pc = "crashed", !.run.raised = @ \cup {call}]

Abort(a, call) ==
    [a EXCEPT !.pc = "run_end",
              !.run.log = @ \cup {"daily_error"},
              !.run.raised = @ \cup {call}]

\* self.youtube_client.authenticate(); youtube_client is None when
\* initialize_components has not set it
Authenticate ==
    /\ entry = "main"
    /\ app.pc = "authenticate"
    /\ \E ok \in BOOLEAN :
          app' = IF ~app.components.youtube_client
                 THEN [app EXCEPT !.pc = "run_end", !.run.log = @ \cup {"daily_error"}]
                 ELSE IF ok THEN [app EXCEPT !.pc = "subscriptions"]
                      ELSE Abort(app, "authenticate")
    /\ UNCHANGED <<entry, cls, dispatchVars, pv, mail, tt, rd>>

\* get_subscriptions, and `if not subscriptions.get('items'): return`
GetSubscriptions ==
    /\ entry = "main"
    /\ app.pc = "subscriptions"
    /\ \E ok \in BOOLEAN, n \in 0..MaxChannels :
          app' = IF ~ok THEN Abort(app, "get_subscriptions")
                 ELSE IF n = 0
                      THEN [app EXCEPT !.pc = "run_end",
                                       !.run.log = @ \cup {"no_subscriptions"}]
                      ELSE [app EXCEPT !.pc = "channels", !.run.channels = n]
    /\ UNCHANGED <<entry, cls, dispatchVars, pv, mail, tt, rd>>

\* the position after the pass of the loop over the channels
NextChannel(a) ==
    [a EXCEPT !.run.ch = a.run.ch + 1,
              !.pc = IF a.run.ch = a.run.channels THEN "dispatch" ELSE "channels"]

\* `except Exception as e` inside the loop: the error is logged with
\* channel_title, `continue`.  Formatting the message raises when no pass has
\* assigned channel_title yet, and that exception reaches the outer except.
ChannelErrorAbortsRun(a, call) == Abort(a, call)

AfterChannelError(a, call) ==
    IF a.run.title_bound
    THEN NextChannel([a EXCEPT !.run.log = @ \cup {"channel_error"},
                               !.run.raised = @ \cup {call}])
    ELSE Abort(a, call)

\* reading subscription['snippet']['resourceId']['channelId'] or
\* subscription['snippet']['title'] raises
SubscriptionRaised == [raised |-> TRUE, at |-> "subscription", items |-> << >>]
ChannelRaised == [raised |-> TRUE, at |-> "get_channel_latest_videos", items |-> << >>]
\* one pass of the loop: reading the subscription raises, or
\* get_channel_latest_videos raises, or it returns no video or one video of
\* the last days
ChannelOutcomes ==
    {SubscriptionRaised, ChannelRaised, [raised |-> FALSE, at |-> "none", items |-> << >>]}
        \cup {[raised |-> FALSE, at |-> "none", items |-> <<v>>] : v \in MainVideoItems}

\* channel_title is assigned in a pass that gets past the two reads
TitleRead(a, out) ==
    [a EXCEPT !.run.title_bound = @ \/ out.at # "subscription"]

\* one pass of `for subscription in subscriptions['items']`
FetchChannel ==
    /\ entry = "main"
    /\ app.pc = "channels"
    /\ \E out \in ChannelOutcomes :
          app' = IF out.raised
                 THEN AfterChannelError(TitleRead(app, out), out.at)
                 ELSE NextChannel([TitleRead(app, out) EXCEPT
                          !.run.all_videos = @ \o out.items,
                          !.run.processed_channels = @ + 1])
    /\ UNCHANGED <<entry, cls, dispatchVars, pv, mail, tt, rd>>

\* `if all_videos: summaries = self.summarizer.process_videos_parallel(all_videos)`
StartDispatch ==
    /\ entry = "main"
    /\ app.pc = "dispatch"
    /\ IF app.run.all_videos # << >>
       THEN /\ app' = [app EXCEPT !.pc = "dispatching"]
            /\ videos' = app.run.all_videos
            /\ max_workers' = MainMaxWorkers
            /\ dpc' = "start"
            /\ fut' = [i \in 1..Len(app.run.all_videos) |-> NoFuture]
            /\ yielded' = {}
            /\ results' = << >>
       ELSE /\ app' = [app EXCEPT !.pc = "run_end",
                                  !.run.log = @ \cup {"no_summaries"}]
            /\ UNCHANGED dispatchVars
    /\ UNCHANGED <<entry, cls, pv, mail, tt, rd>>

\* the title of the fetched videos
VideoTitle == <<"A", "I", " ", "n", "e", "w", "s">>

\* the results of the dispatcher as the renderer reads them
SummariesOf(rs) == [k \in 1..Len(rs) |-> [title |-> VideoTitle, body |-> "text"]]

\* `if summaries:`
RendersEmptyList(summaries) == TRUE

HasSummaries(summaries) == summaries # << >>

\* `if summaries:` and the call of generate_report
AfterDispatch ==
    /\ entry = "main"
    /\ app.pc = "dispatching"
    /\ dpc = "returned"
    /\ IF HasSummaries(results)
       THEN /\ app' = [app EXCEPT !.pc = "rendering",
                                  !.run.calls.generate_report = @ + 1]
            /\ rd' = RdInit("fixed_pdf", SummariesOf(results))
       ELSE /\ app' = [app EXCEPT !.pc = "run_end",
                                  !.run.log = @ \cup {"no_summaries"}]
            /\ UNCHANGED rd
    /\ UNCHANGED <<entry, cls, dispatchVars, pv, mail, tt>>

\* `if generated_pdf:` send it, else log the failure
SendsWhateverWasRendered(ret) == "sending"

AfterReport(ret) == IF ret = "path" THEN "sending" ELSE "run_end"

AfterRender ==
    /\ entry = "main"
    /\ app.pc = "rendering"
    /\ rd.pc = "done"
    /\ IF AfterReport(rd.ret) = "sending"
       THEN /\ app' = [app EXCEPT !.pc = "sending",
                                  !.run.calls.send_report = @ + 1]
            /\ mail' = MailInit("file", FALSE)
       ELSE /\ app' = [app EXCEPT !.pc = "run_end",
                                  !.run.log = @ \cup {"render_failed"}]
            /\ UNCHANGED mail
    /\ UNCHANGED <<entry, cls, dispatchVars, pv, tt, rd>>

\* `if success:` after send_report
AfterSend ==
    /\ entry = "main"
    /\ app.pc = "sending"
    /\ mail.pc \in {"done", "raised"}
    /\ app' = [app EXCEPT
                  !.pc = "run_end",
                  !.run.log = @ \cup {IF mail.ret = "True" THEN "completed"
                                      ELSE IF mail.ret = "False" THEN "email_failed"
                                      ELSE "daily_error"}]
    /\ UNCHANGED <<entry, cls, dispatchVars, pv, mail, tt, rd>>

\* process_daily_summaries returns: to main() after run_once, to the loop of
\* run_scheduler otherwise
EndRun ==
    /\ entry = "main"
    /\ app.pc = "run_end"
    /\ app' = [app EXCEPT !.pc = IF RunsOnce(app.argv) THEN "exit" ELSE "sleeping"]
    /\ UNCHANGED <<entry, cls, dispatchVars, pv, mail, tt, rd>>

----------------------------------------------------------------------------
(* The runs *)

DispatchIdle ==
    /\ videos = << >>
    /\ max_workers = DefaultMaxWorkers
    /\ dpc = "idle"
    /\ fut = << >>
    /\ yielded = {}
    /\ results = << >>

ReportIdle ==
    /\ tt = TtIdle
    /\ rd = RdIdle
    /\ app = AppIdle

InitDispatch ==
    /\ entry = "dispatch"
    /\ cls \in DispatcherClasses
    /\ videos \in SeqsUpTo(VideoItems, MaxVideos)
    /\ max_workers \in WorkerChoices
    /\ dpc = "start"
    /\ fut = [i \in 1..Len(videos) |-> NoFuture]
    /\ yielded = {}
    /\ results = << >>
    /\ pv = PvIdle
    /\ mail = MailIdle
    /\ ReportIdle

InitProcessVideo ==
    /\ entry = "process_video"
    /\ cls \in VideoClasses
    /\ DispatchIdle
    /\ \E has_id \in BOOLEAN : pv = PvInit(has_id)
    /\ mail = MailIdle
    /\ ReportIdle

InitSendReport ==
    /\ entry = "send_report"
    /\ cls = "email_sender"
    /\ DispatchIdle
    /\ pv = PvIdle
    /\ \E pdf \in PdfPaths, subject_given \in BOOLEAN : mail = MailInit(pdf, subject_given)
    /\ ReportIdle

InitTranslateTitle ==
    /\ entry = "translate_title"
    /\ cls \in TranslatorClasses
    /\ DispatchIdle
    /\ pv = PvIdle
    /\ mail = MailIdle
    /\ \E title \in Titles : tt = TtInit(title)
    /\ rd = RdIdle
    /\ app = AppIdle

InitGenerateReport ==
    /\ entry = "generate_report"
    /\ cls \in RendererClasses
    /\ DispatchIdle
    /\ pv = PvIdle
    /\ mail = MailIdle
    /\ tt = TtIdle
    /\ \E summaries \in SeqsUpTo(SummaryItems, MaxSummaries) : rd = RdInit(cls, summaries)
    /\ app = AppIdle

InitMain ==
    /\ entry = "main"
    /\ cls = "fixed"
    /\ DispatchIdle
    /\ pv = PvIdle
    /\ mail = MailIdle
    /\ tt = TtIdle
    /\ rd = RdIdle
    /\ \E env \in SUBSET EnvKeys, argv \in Argvs, schedule_time_ok \in BOOLEAN :
          app = AppInit(env, argv, schedule_time_ok)

Init ==
    \/ InitDispatch
    \/ InitProcessVideo
    \/ InitSendReport
    \/ InitTranslateTitle
    \/ InitGenerateReport
    \/ InitMain

Next ==
    \/ Submit
    \/ \E i \in Idx : StartUnit(i)
    \/ \E i \in Idx : FinishUnit(i)
    \/ \E i \in Idx : Collect(i)
    \/ ReturnResults
    \/ StartProcessVideo
    \/ GetTranscript
    \/ TryLanguage
    \/ ListTranscripts
    \/ GetDetails
    \/ CheckContent
    \/ SummarizeVideo
    \/ AttachPdf
    \/ SmtpStep
    \/ CallTranslateTitle
    \/ StartReport
    \/ RenderSection
    \/ BuildDocument
    \/ RenderAgain
    \/ Construct
    \/ RunOnceBranch
    \/ SetupScheduler
    \/ RunPending
    \/ Sleep
    \/ Authenticate
    \/ GetSubscriptions
    \/ FetchChannel
    \/ StartDispatch
    \/ AfterDispatch
    \/ AfterRender
    \/ AfterSend
    \/ EndRun

Spec == Init /\ [][Next]_vars

----------------------------------------------------------------------------
(* The Parallel Dispatcher *)

DispatchReturned == entry = "dispatch" /\ dpc = "returned"

\* the positions of `results` holding the result of item i
ResultsOf(i) == {k \in 1..Len(results) : results[k].video_id = i}

WellFormed(i) == videos[i].shape = "search_result"

\* C1: FixedSummarizer.process_videos_parallel returns exactly one result per
\* input item, however many _make_api_call invocations raise, and no exception
\* leaves it.
C1_FixedReturnsAllResults ==
    (entry = "dispatch" /\ cls = "fixed") =>
        /\ dpc # "escaped"
        /\ dpc = "returned" => Len(results) = Len(videos)

\* C2: in ParallelOpenRouterGeminiSummarizer.process_videos_parallel, given
\* well-formed items, the returned list has one entry per item, and every item
\* whose request failed is there with success = False and the error string as
\* its summary.
C2_ParallelKeepsFailedItems ==
    (DispatchReturned /\ cls = "parallel" /\ \A i \in Idx : WellFormed(i)) =>
        /\ Len(results) = Len(videos)
        /\ \A i \in Idx :
              videos[i].resp \in FailedResponses =>
                  \E k \in ResultsOf(i) :
                      /\ results[k].success = FALSE
                      /\ results[k].summary = Summary("processing_failed", videos[i].resp)

\* C3: in a batch A, B, C where only B's request times out, B is returned with
\* success = False and a failure indicator as summary, and A and C are returned
\* with success = True and the model's text.
C3_OnlyTimedOutItemFails ==
    (/\ DispatchReturned
     /\ Len(videos) = 3
     /\ \A i \in Idx : WellFormed(i)
     /\ videos[1].resp = "ok" /\ videos[2].resp = "timeout" /\ videos[3].resp = "ok") =>
        /\ \E k \in ResultsOf(2) :
              /\ results[k].success = FALSE
              /\ results[k].summary.kind = "processing_failed"
        /\ \A i \in {1, 3} :
              \E k \in ResultsOf(i) :
                  /\ results[k].success = TRUE
                  /\ results[k].summary.kind = "model_text"

\* whether the collecting loop keeps the result of item i when no unit raises:
\* the item's own call returns, and (parallel class) returns success = True
KeptOnItsOwn(i) ==
    /\ WellFormed(i)
    /\ cls = "fixed" \/ videos[i].resp \in TextResponses

RaisedUnits == {i \in Idx : fut[i].state = "finished" /\ fut[i].out.raised}

----------------------------------------------------------------------------
(* The Content Resolver *)

\* the resolver of Enhanced/HybridPodcastSummarizer has returned
ResolverReturned ==
    /\ entry = "process_video"
    /\ cls \in ResolverClasses
    /\ pv.has_id
    /\ pv.pc \in {"resolved", "summarize", "done"}

\* some transcript fetch of the video (by language or from the listing) gives a
\* text of at least n characters
HasTranscriptOfLen(n) ==
    \/ pv.seen >= n
    \/ \E k \in 1..Len(pv.listing.items) : pv.listing.items[k].fetch >= n

\* the result is a transcript text with the provenance tag of the strategy that
\* found it, and the description fallback was not entered
ReturnsTranscript ==
    /\ pv.content.len > MinTranscriptLen(cls)
    /\ pv.content.src \in {"language", "generated", "manual"}
    /\ pv.content.src = "language" =>
          /\ pv.listing.status = "untried"
          /\ pv.content_type \in
                {"transcript"} \cup {"transcript_" \o Languages(cls)[k] :
                                        k \in 1..Len(Languages(cls))}
    /\ pv.content.src = "generated" => pv.content_type \in {"auto_transcript", "auto_generated"}
    /\ pv.content.src = "manual" => pv.content_type \in {"manual_transcript", "manual"}
    /\ pv.details.status = "untried"

\* C5 as stated: a video with a transcript of length >= the threshold (50 in
\* EnhancedPodcastSummarizer, 100 in HybridPodcastSummarizer) resolves to that
\* kind of transcript and never to the description.
C5_TranscriptAtThresholdResolves ==
    (ResolverReturned /\ HasTranscriptOfLen(MinTranscriptLen(cls))) => ReturnsTranscript

\* C5 amended: a video with a transcript whose text is longer than the threshold
\* resolves to a transcript text with the matching provenance tag and never
\* falls through to the description fallback.
C5_TranscriptOverThresholdResolves ==
    (ResolverReturned /\ HasTranscriptOfLen(MinTranscriptLen(cls) + 1)) => ReturnsTranscript

C5_Witness ==
    /\ ResolverReturned
    /\ HasTranscriptOfLen(MinTranscriptLen(cls) + 1)
    /\ pv.content.src = "manual"
    /\ pv.seen = MinTranscriptLen(cls)

\* no transcript at all: every fetch by language raised, and the listing raised
\* or is empty
NoCaptions ==
    /\ pv.seen = FetchRaises
    /\ pv.listing.status # "untried"
    /\ pv.listing.items = << >>

\* C6: a video with zero transcripts and a description of at least 100
\* characters resolves to the description, tagged as description.
C6_LongDescriptionResolves ==
    (/\ ResolverReturned
     /\ NoCaptions
     /\ pv.details.status = "found"
     /\ pv.details.desc_len >= 100) =>
        /\ pv.content.src \in {"description", "enhanced_description"}
        /\ pv.content_type \in {"description", "enhanced_description"}
        /\ pv.content.len >= pv.details.desc_len - pv.details.desc_trail

\* no transcript fetch gave a text the class accepts
NoTranscript == ~HasTranscriptOfLen(MinTranscriptLen(cls) + 1)

\* the video's details were asked for and hold no description that passes the
\* class's own check (enhanced: more than 100 characters; hybrid: the
\* description with its metadata header more than 200 characters)
NoAdequateDescription ==
    /\ pv.details.status # "untried"
    /\ \/ pv.details.status = "unavailable"
       \/ pv.details.desc_len = 0
       \/ cls = "enhanced" /\ pv.details.desc_len <= 100
       \/ cls = "hybrid" /\ 64 + pv.details.meta_len + pv.details.desc_len
                                 - pv.details.desc_trail <= 200

C8_ShortDescriptionRejected ==
    (/\ ResolverReturned
     /\ NoCaptions
     /\ pv.details.status = "found"
     /\ pv.details.desc_len = 40) =>
        pv.content = NoText /\ pv.content_type = "None"

----------------------------------------------------------------------------
(* The Summarization Client *)

\* C9: when the request of a summarization client fails (network error, HTTP
\* error status, malformed body) the client raises nothing and returns a
\* placeholder string that embeds the failure reason.
C9_FailedRequestGivesPlaceholder ==
    (entry = "process_video" /\ pv.resp \in FailedResponses) =>
        /\ pv.ret.kind = "dict"
        /\ pv.ret.summary.kind =
              (IF cls = "openrouter_direct" THEN "analysis_failed" ELSE "summary_failed")
        /\ pv.ret.summary.reason = pv.resp

C9_Witness ==
    /\ entry = "process_video"
    /\ cls = "hybrid"
    /\ pv.resp = "malformed"
    /\ pv.ret.summary = Summary("summary_failed", "malformed")

----------------------------------------------------------------------------
(* The Delivery Adapter *)

\* C10: send_report returns a boolean: True exactly when connect, STARTTLS,
\* login and sendmail all succeed, and False (without raising) when one of them
\* fails.
C10_TrueIffMailWasSent ==
    (entry = "send_report" /\ mail.pc = "done") =>
        /\ mail.ret \in {"True", "False"}
        /\ mail.ret = "True" <=>
              {"connect", "starttls", "login", "sendmail"} \subseteq mail.succeeded

----------------------------------------------------------------------------
(* The Report Renderer *)

IsTitle(e) == e.kind = "title"

\* the sections of a story: its title paragraphs, in the order of the story
SectionsOf(story) == SelectSeq(story, IsTitle)

\* generate_report has returned the path of a built document
Rendered == rd.pc = "done" /\ rd.ret = "path"

\* C11: the document generate_report builds has exactly one section per result
\* of the list, in the order of the list, each with the title of its result;
\* a second call with the same list builds a document with the same sections
\* in the same order.
C11_OneSectionPerResultInOrder ==
    Rendered =>
        /\ Len(SectionsOf(rd.story)) = Len(rd.summaries)
        /\ \A k \in 1..Len(SectionsOf(rd.story)) :
              /\ SectionsOf(rd.story)[k].item = k
              /\ SectionsOf(rd.story)[k].text = rd.summaries[k].title
        /\ (rd.pass = 2 /\ rd.first.ret = "path") =>
              SectionsOf(rd.first.story) = SectionsOf(rd.story)

C11_Witness ==
    /\ entry = "generate_report"
    /\ Rendered
    /\ rd.pass = 2 /\ rd.first.ret = "path"
    /\ Len(rd.summaries) = 2
    /\ rd.summaries[1].title # rd.summaries[2].title
    /\ rd.summaries[1].body = "empty"

\* the body paragraphs of section i
BodyOf(story, i) == SelectSeq(story, LAMBDA e : e.kind = "body" /\ e.item = i)

\* C12: in every renderer a result whose summary is missing, None, empty or
\* whitespace-only does not make generate_report fail, and its section gets one
\* body paragraph holding a fixed sentence of the renderer.
C12_EmptyBodyGetsPlaceholder ==
    (InReport /\ rd.pc # "idle") =>
        \A i \in 1..Len(rd.summaries) :
            rd.summaries[i].body \in EmptyBodies =>
                /\ rd.failed_at # i
                /\ (i < rd.i) =>
                      \/ BodyOf(rd.story, i) = <<El("body", i, <<"placeholder">>)>>
                      \/ BodyOf(rd.story, i) = <<El("body", i, <<"default">>)>>

----------------------------------------------------------------------------
(* Title translation *)

\* the known phrases of the lookup table of class c
KnownPhrases(c) ==
    IF c = "fixed_pdf"
    THEN {FixedPdfTranslations[k].en : k \in 1..Len(FixedPdfTranslations)}
    ELSE {FixedSummarizerTranslations[k].en : k \in 1..Len(FixedSummarizerTranslations)}

\* the title contains a known phrase, whatever the case of its letters
ContainsKnownPhrase(c, title) ==
    \E phrase \in KnownPhrases(c) : Contains(Lower(title), Lower(phrase))

\* C13: translate_title returns a title that contains none of the known phrases
\* of the lookup table as it is.
C13_UnknownTitleReturnedVerbatim ==
    (/\ entry = "translate_title"
     /\ tt.pc = "done"
     /\ ~ContainsKnownPhrase(cls, tt.title)) =>
        tt.out = tt.title

----------------------------------------------------------------------------
(* The application *)

\* a run of process_daily_summaries is over
RunEnded == app.pc \in {"run_end", "exit", "sleeping", "pending"} /\ app.runs > 0

\* no stage after the Video Source has been entered in this run
NothingDownstream == dpc = "idle" /\ rd.pc = "idle" /\ mail.pc = "idle"

\* C14: when a required configuration key is absent the application stops at
\* startup: process_daily_summaries is never started, with --once or by the
\* scheduler.
C14_NoRunAfterFailedValidation ==
    (entry = "main" /\ ~(RequiredVars \subseteq app.env)) =>
        /\ app.runs = 0
        /\ app.pc \notin {"pending", "sleeping"}

\* C15: with --once as first argument process_daily_summaries is invoked once,
\* as the first thing after construction, no job is registered and the program
\* ends after that run; without it nothing runs at startup, one job is
\* registered, the program never leaves the scheduler loop, and
\* process_daily_summaries runs once for each time run_pending finds the job
\* due.
C15_OnceOrScheduled ==
    entry = "main" =>
        IF Len(app.argv) > 0 /\ app.argv[1] = "--once"
        THEN /\ app.jobs = 0
             /\ app.due_count = 0
             /\ app.runs = (IF app.pc \in {"construct", "main"} THEN 0 ELSE 1)
             /\ app.pc \notin {"pending", "sleeping", "crashed"}
        ELSE app.schedule_time_ok =>
                /\ app.pc \notin {"exit", "crashed"}
                /\ app.jobs = (IF app.pc \in {"construct", "main"} THEN 0 ELSE 1)
                /\ app.runs = app.due_count

C15_Witness ==
    /\ entry = "main"
    /\ app.argv = <<"--verbose">>
    /\ app.pc = "pending"
    /\ app.jobs = 1
    /\ app.runs = 2
    /\ "completed" \in app.run.log

\* C16 as stated: an error raised by authenticate, get_subscriptions or
\* get_channel_latest_videos is logged and ends the run; no summarization,
\* rendering or delivery happens in that run.
C16_SourceErrorAbortsRun ==
    (entry = "main" /\ app.run.raised # {}) =>
        /\ RunEnded
        /\ app.run.log \cap {"daily_error", "channel_error"} # {}
        /\ NothingDownstream

\* C16 amended: an error raised by authenticate or get_subscriptions is logged
\* and ends the run with no summarization, rendering or delivery; an error
\* raised by get_channel_latest_videos is logged and only that channel is
\* skipped, the loop visits every remaining channel.
C16_AuthOrListingErrorAbortsRun ==
    entry = "main" =>
        /\ (app.run.raised \cap {"authenticate", "get_subscriptions"} # {}) =>
              /\ RunEnded
              /\ "daily_error" \in app.run.log
              /\ NothingDownstream
        /\ ("get_channel_latest_videos" \in app.run.raised) =>
              /\ "channel_error" \in app.run.log
              /\ app.pc = "channels" \/ app.run.ch = app.run.channels + 1

C16_Witness ==
    /\ entry = "main"
    /\ "get_channel_latest_videos" \in app.run.raised
    /\ app.run.channels = 2
    /\ Len(results) = 1
    /\ mail.ret = "True"
    /\ "completed" \in app.run.log

\* C17: in process_daily_summaries send_report is called only after
\* generate_report has returned a path, and generate_report only after the
\* dispatcher has returned; when generate_report returns None nothing is sent
\* and the failure is logged.
C17_DeliveryOnlyAfterRendering ==
    entry = "main" =>
        /\ mail.pc # "idle" => (rd.pc = "done" /\ rd.ret = "path")
        /\ rd.pc # "idle" => dpc = "returned"
        /\ (rd.pc = "done" /\ rd.ret # "path") =>
              /\ mail.pc = "idle"
              /\ app.pc # "rendering" => "render_failed" \in app.run.log

C17_Witness ==
    /\ entry = "main"
    /\ app.pc = "exit"
    /\ rd.ret = "None"
    /\ "render_failed" \in app.run.log
    /\ mail.pc = "idle"

----------------------------------------------------------------------------
(* The worker pool *)

\* C18: process_videos_parallel has returned only when every submitted unit
\* has completed.
C18_ReturnsAfterAllUnits ==
    (InDispatch /\ dpc \in {"returned", "escaped"}) =>
        \A i \in Idx : fut[i].state = "finished"

C18_Witness ==
    /\ entry = "dispatch"
    /\ dpc = "returned"
    /\ Len(videos) = 3
    /\ max_workers = 2
    /\ RaisedUnits # {}

\* C19: at most max_workers units run at the same time; max_workers is 5 by
\* default and in the main pipeline.
C19_AtMostMaxWorkersRunning ==
    InDispatch =>
        /\ Cardinality(Running) <= max_workers
        /\ entry = "main" => max_workers = 5

C19_Witness ==
    /\ entry = "dispatch"
    /\ Len(videos) = 3
    /\ Cardinality(Running) = max_workers
    /\ Pending # {}

\* C20: while the loop collects, every step leaves `results` as it is or
\* appends to its end the result of a unit that has completed and was not
\* collected before: the list is in the order in which completions are
\* observed, which need not be the order of submission.
C20_ResultsInCompletionOrder ==
    [][(InDispatch /\ dpc = "collecting") =>
          \/ results' = results
          \/ \E i \in Finished \ yielded :
                /\ yielded' = yielded \cup {i}
                /\ results' = Append(results, fut[i].out.value)]_vars

C20_Witness ==
    /\ entry = "dispatch"
    /\ dpc = "returned"
    /\ max_workers = 2
    /\ Len(results) = 3
    /\ results[1].video_id = 3 /\ results[2].video_id = 2 /\ results[3].video_id = 1

----------------------------------------------------------------------------
(* No retries *)

\* C21: no retries.  Each video item causes at most one summarization request,
\* and an item whose request failed has sent exactly that one request and has
\* its result at once: the canned paragraph (FixedSummarizer), the
\* "处理失败" result (parallel class), the "摘要生成失败" / "视频分析失败"
\* text (the clients behind process_video).
C21_AtMostOneRequestPerItem ==
    /\ InDispatch =>
          \A i \in Idx :
              /\ fut[i].requests <= 1
              /\ (fut[i].state = "finished" /\ videos[i].shape = "search_result"
                    /\ videos[i].resp \in FailedResponses)
                 => /\ fut[i].requests = 1
                    /\ ~fut[i].out.raised
                    /\ fut[i].out.value.summary.kind
                           \in {"fallback_summary", "processing_failed"}
    /\ entry = "process_video" =>
          /\ pv.api_calls <= 1
          /\ (pv.pc = "done" /\ pv.resp \in FailedResponses)
             => /\ pv.api_calls = 1
                /\ pv.ret.kind = "dict"
                /\ pv.ret.summary.kind \in {"summary_failed", "analysis_failed"}

\* a batch of two items whose requests both failed, each after one request
C21_Witness ==
    /\ entry = "dispatch"
    /\ dpc = "returned"
    /\ Len(videos) = 2
    /\ \A i \in Idx : videos[i].resp \in FailedResponses /\ fut[i].requests = 1

----------------------------------------------------------------------------
(* The order of the resolver's strategies *)

\* the steps of a resolver in the order of the code
ResolverOrder(c) == Languages(c) \o <<"list_transcripts", "description">>

\* the provenance tag of the text found by the step number n
ProvenanceOfStep(c, n) ==
    IF n <= Len(Languages(c)) THEN LanguageProvenance(c, Languages(c)[n])
    ELSE IF n = Len(Languages(c)) + 1
         THEN IF AcceptedAt(c, pv.listing.items, TRUE) # {}
              THEN GeneratedProvenance(c) ELSE ManualProvenance(c)
         ELSE IF c = "enhanced" THEN "description" ELSE "enhanced_description"

\* C22: the strategies are attempted in the fixed order - the preferred
\* languages in list order, the listed transcripts (auto-generated before
\* manual), the description -, no step is attempted after one that gave an
\* acceptable text, and the returned provenance is that of this earliest
\* succeeding step; the resolver returns nothing only after every step failed.
C22_StrategiesInOrderStopAtFirst ==
    (entry = "process_video" /\ cls \in ResolverClasses) =>
        LET t == pv.steps
            n == Len(t)
        IN /\ n <= Len(ResolverOrder(cls))
           /\ \A k \in 1..n :
                 /\ t[k].step = ResolverOrder(cls)[k]
                 /\ k < n => ~t[k].ok
           /\ ResolverReturned =>
                 /\ n > 0
                 /\ IF pv.content.len > 0
                    THEN /\ t[n].ok
                         /\ pv.content_type = ProvenanceOfStep(cls, n)
                    ELSE /\ n = Len(ResolverOrder(cls))
                         /\ ~t[n].ok

\* the listing holds an acceptable manual transcript in front of an acceptable
\* auto-generated one, and the auto-generated one is returned
C22_Witness ==
    /\ ResolverReturned
    /\ Len(pv.steps) = Len(Languages(cls)) + 1
    /\ pv.content_type = GeneratedProvenance(cls)
    /\ Len(pv.listing.items) = 2
    /\ ~pv.listing.items[1].is_generated
    /\ AcceptTranscript(cls, pv.listing.items[1].fetch)

\* C23: a transcript fetch that raises or gives a too short text does not end
\* the resolution and no exception leaves the resolver: it returns without a
\* text only after every language, the transcript listing and the description
\* have been tried.
C23_FetchFailureDoesNotAbort ==
    ResolverReturned =>
        /\ pv.ret.kind # "raised"
        /\ pv.content.len = 0 =>
              /\ pv.li = Len(Languages(cls)) + 1
              /\ pv.listing.status # "untried"
              /\ pv.details.status # "untried"

\* every fetch by language raised, the listed transcripts raised or were too
\* short, and the description fallback was still reached and gave the text
C23_Witness ==
    /\ ResolverReturned
    /\ pv.seen = FetchRaises
    /\ pv.listing.status = "listed"
    /\ Len(pv.listing.items) = 2
    /\ pv.listing.items[1].fetch = FetchRaises
    /\ pv.content.src \in {"description", "enhanced_description"}

----------------------------------------------------------------------------
(* The degraded return of the renderers *)

\* C24: generate_report of every renderer returns the output path or None for
\* any list of results (a result may lack the key 'summary', hold None or a
\* text Paragraph cannot parse) and never raises to its caller.
C24_GenerateReportNeverRaises ==
    (entry = "generate_report" /\ rd.pc = "done") => rd.ret \in {"path", "None"}

----------------------------------------------------------------------------
(* The provenance-aware prompt *)

\* C25: for every provenance tag a resolver returns, the prompt of the
\* matching client uses the wording of that provenance, never the default one.
C25_PromptMatchesProvenance ==
    (ResolverReturned /\ pv.pc = "done" /\ pv.api_calls = 1) =>
        /\ pv.instruction # "default"
        /\ pv.instruction = pv.content_type

----------------------------------------------------------------------------
(* The results of FixedSummarizer *)

\* C26: every result FixedSummarizer._make_api_call returns has success =
\* True and no failure reason: the canned title-based paragraph when the
\* request failed, the text was shorter than 100 characters or failed the
\* title-keyword check, the model's stripped text otherwise; so has every
\* result in the list of process_videos_parallel.
C26_FixedResultsAlwaysSuccess ==
    (InDispatch /\ cls = "fixed") =>
        /\ \A i \in Idx :
              (fut[i].state = "finished" /\ ~fut[i].out.raised) =>
                  /\ fut[i].out.value.success
                  /\ fut[i].out.value.summary.reason = ""
                  /\ fut[i].out.value.summary.kind =
                        IF videos[i].resp = "ok" THEN "model_text" ELSE "fallback_summary"
        /\ \A k \in 1..Len(results) :
              results[k].success /\ results[k].summary.reason = ""

\* a batch with a failed request, a short answer and an answer that does not
\* match the title: three results with the canned paragraph
C26_Witness ==
    /\ entry = "dispatch"
    /\ cls = "fixed"
    /\ dpc = "returned"
    /\ Len(results) = 3
    /\ {videos[i].resp : i \in Idx} = {"timeout", "short", "mismatch"}
    /\ \A k \in 1..3 : results[k].summary.kind = "fallback_summary"

----------------------------------------------------------------------------
(* The loop over the subscriptions *)

\* C27: an exception while handling one subscription (reading its channel id
\* or title, or fetching its videos) is contained to that subscription,
\* whatever its position in the list: it is logged, the loop visits every
\* remaining subscription, and the videos of the other channels are summarized.
C27_SubscriptionErrorContained ==
    (entry = "main"
       /\ app.run.raised \cap {"subscription", "get_channel_latest_videos"} # {}) =>
        /\ "channel_error" \in app.run.log
        /\ app.pc = "channels" \/ app.run.ch = app.run.channels + 1
        /\ (RunEnded /\ app.run.all_videos # << >>) => dpc = "returned"

----------------------------------------------------------------------------
(* A failed run and the scheduler *)

\* C28: no exception leaves process_daily_summaries, whatever the components
\* are (youtube_client None after a failed initialisation, a failing source
\* call, a failing delivery): the error is logged and the run ends; so once a
\* run has started the program has not crashed, and in scheduled mode it is
\* still in the loop of run_scheduler after the run.
C28_RunNeverRaises ==
    (entry = "main" /\ app.runs > 0) =>
        /\ app.pc # "crashed"
        /\ (Len(app.argv) = 0 \/ app.argv[1] # "--once") => app.pc # "exit"
        /\ (app.run.raised # {} /\ app.pc \in {"run_end", "sleeping", "pending", "exit"})
              => app.run.log \cap {"daily_error", "channel_error"} # {}
        /\ (~app.components.youtube_client
               /\ app.pc \in {"run_end", "sleeping", "pending", "exit"})
              => "daily_error" \in app.run.log
        /\ (mail.ret = "False" /\ app.pc \in {"run_end", "sleeping", "pending", "exit"})
              => "email_failed" \in app.run.log

\* scheduled mode: the first run ended in the outer except, the job became due
\* again and the second run went through to the delivery
C28_Witness ==
    /\ entry = "main"
    /\ app.jobs = 1
    /\ app.runs = 2
    /\ app.failed_runs = 1
    /\ app.pc = "sleeping"
    /\ "completed" \in app.run.log

----------------------------------------------------------------------------
(* One report and one mail per run *)

\* C29: within one run generate_report and send_report are each called at most
\* once, and while the run has no summaries - no subscriptions, no recent
\* videos, every result dropped by the dispatcher - no report is rendered and
\* no mail is sent.
C29_OneReportOneMailPerRun ==
    entry = "main" =>
        /\ app.run.calls.generate_report <= 1
        /\ app.run.calls.send_report <= 1
        /\ (rd.pc # "idle") = (app.run.calls.generate_report = 1)
        /\ (mail.pc # "idle") = (app.run.calls.send_report = 1)
        /\ results = << >> =>
              /\ rd.pc = "idle"
              /\ mail.pc = "idle"
              /\ app.run.calls = [generate_report |-> 0, send_report |-> 0]

\* two videos were dispatched and both results were dropped: the run ended
\* with 'No summaries generated'
C29_Witness ==
    /\ entry = "main"
    /\ app.pc = "exit"
    /\ dpc = "returned"
    /\ Len(videos) = 2
    /\ results = << >>
    /\ "no_summaries" \in app.run.log
    /\ rd.pc = "idle"

----------------------------------------------------------------------------
(* The results list under concurrency *)

\* C30: in every interleaving each submitted item has at most one entry in
\* `results`, an entry exists only for a future the collecting loop has
\* handled (a worker that has finished has written nothing), and every entry
\* is the result computed from one item: its title, channel and video_id are
\* those of that item.
C30_OneUnmixedResultPerItem ==
    InDispatch =>
        /\ \A k \in 1..Len(results) :
              /\ results[k].video_id \in yielded
              /\ results[k].title = results[k].video_id
              /\ results[k].channel = results[k].video_id
              /\ fut[results[k].video_id].state = "finished"
              /\ fut[results[k].video_id].out = Returned(results[k])
        /\ \A k, l \in 1..Len(results) :
              results[k].video_id = results[l].video_id => k = l
        /\ Len(results) <= Cardinality(yielded)

\* three units of a pool of 2 have finished, the loop has handled the second
\* and the third, the result of the first is not in the list yet
C30_Witness ==
    /\ entry = "dispatch"
    /\ max_workers = 2
    /\ Finished = {1, 2, 3}
    /\ yielded = {2, 3}
    /\ Len(results) = 2
    /\ results[1].video_id = 3
    /\ ~fut[1].out.raised

====
